---------------------------- MODULE Spec2Model ----------------------------
(***************************************************************************)
(* A model of async_tio.Tio (src/async_tio/tio.py): the client of the      *)
(* tio.run code-execution service.                                         *)
(*                                                                         *)
(* Text is a sequence of characters, a character is a one-character string *)
(* (characters outside printable ASCII are written by their code point,    *)
(* "U+00E9").  Bytes are the integers 0..255.                              *)
(***************************************************************************)
EXTENDS Integers, Sequences, FiniteSets, TLC

(***************************************************************************)
(* Characters, UTF-8 and decimal text                                      *)
(***************************************************************************)

\* Printable ASCII, code points 32..126, in order.
Ascii ==
  <<" ", "!", "\"", "#", "$", "%", "&", "'", "(", ")", "*", "+", ",", "-",
    ".", "/", "0", "1", "2", "3", "4", "5", "6", "7", "8", "9", ":", ";",
    "<", "=", ">", "?", "@", "A", "B", "C", "D", "E", "F", "G", "H", "I",
    "J", "K", "L", "M", "N", "O", "P", "Q", "R", "S", "T", "U", "V", "W",
    "X", "Y", "Z", "[", "\\", "]", "^", "_", "U+0060", "a", "b", "c", "d", "e",
    "f", "g", "h", "i", "j", "k", "l", "m", "n", "o", "p", "q", "r", "s",
    "t", "u", "v", "w", "x", "y", "z", "{", "|", "}", "~">>

NUL == "U+0000"       \* the NUL character
LF == "\n"
EAcute == "U+00E9"    \* two bytes in UTF-8
Euro == "U+20AC"      \* three bytes in UTF-8

\* The code points of the printable ASCII characters.
AsciiOrd ==
  [c \in {Ascii[i] : i \in 1..Len(Ascii)} |->
     31 + (CHOOSE i \in 1..Len(Ascii) : Ascii[i] = c)]

\* The code point of a character.
Ord(c) ==
  CASE c = NUL -> 0
    [] c = LF -> 10
    [] c = EAcute -> 233
    [] c = Euro -> 8364
    [] OTHER -> AsciiOrd[c]

\* The character of a code point.
Chr(n) ==
  CASE n = 0 -> NUL
    [] n = 10 -> LF
    [] n = 233 -> EAcute
    [] n = 8364 -> Euro
    [] OTHER -> Ascii[n - 31]

\* UTF-8 bytes of one character.
EncodeChar(c) ==
  LET n == Ord(c) IN
  IF n < 128 THEN <<n>>
  ELSE IF n < 2048 THEN <<192 + (n \div 64), 128 + (n % 64)>>
  ELSE <<224 + (n \div 4096), 128 + ((n \div 64) % 64), 128 + (n % 64)>>

RECURSIVE utf8_encode(_)
\* bytes(s, encoding='utf-8')
utf8_encode(s) ==
  IF s = <<>> THEN <<>> ELSE EncodeChar(Head(s)) \o utf8_encode(Tail(s))

RECURSIVE utf8_decode(_)
\* data.decode("utf-8"), on well-formed input of up to three-byte characters
utf8_decode(b) ==
  IF b = <<>> THEN <<>>
  ELSE IF b[1] < 128 THEN <<Chr(b[1])>> \o utf8_decode(SubSeq(b, 2, Len(b)))
  ELSE IF b[1] < 224
    THEN <<Chr((b[1] - 192) * 64 + (b[2] - 128))>>
           \o utf8_decode(SubSeq(b, 3, Len(b)))
  ELSE <<Chr((b[1] - 224) * 4096 + (b[2] - 128) * 64 + (b[3] - 128))>>
         \o utf8_decode(SubSeq(b, 4, Len(b)))

RECURSIVE str_int(_)
\* str(n) of a natural number: its decimal digits
str_int(n) ==
  IF n < 10 THEN <<Chr(48 + n)>> ELSE str_int(n \div 10) \o <<Chr(48 + (n % 10))>>

RECURSIVE join(_, _)
\* sep.join(parts), parts a list of texts
join(sep, parts) ==
  IF parts = <<>> THEN <<>>
  ELSE IF Len(parts) = 1 THEN parts[1]
  ELSE parts[1] \o sep \o join(sep, Tail(parts))

RECURSIVE concat(_)
\* b''.join(parts)
concat(parts) ==
  IF parts = <<>> THEN <<>> ELSE Head(parts) \o concat(Tail(parts))

\* Python's (needle in haystack) on two texts.
str_in(needle, haystack) ==
  \E i \in 0..(Len(haystack) - Len(needle)) :
    SubSeq(haystack, i + 1, i + Len(needle)) = needle

\* Python's (x in lst) on a list.
list_in(x, lst) == \E i \in 1..Len(lst) : lst[i] = x

(***************************************************************************)
(* Python values handed to _format_payload: None, a str or a list of str   *)
(***************************************************************************)
PyNone == [t |-> "None", v |-> <<>>]
PyStr(s) == [t |-> "str", v |-> s]
PyList(l) == [t |-> "list", v |-> l]

\* not obj
falsy(obj) == obj.t = "None" \/ Len(obj.v) = 0

(***************************************************************************)
(* Tio._format_payload and the payload of execute                          *)
(***************************************************************************)

\* A faulty encoder: an empty list is written as a record of count 0, an
\* empty text as a record of length 0.
format_payload_keep_empty(name, obj) ==
  IF obj.t = "None" THEN <<>>
  ELSE IF obj.t = "list"
    THEN LET content == <<<<"V">> \o name, str_int(Len(obj.v))>> \o obj.v
         IN  utf8_encode(join(<<NUL>>, content) \o <<NUL>>)
  ELSE utf8_encode(<<"F">> \o name \o <<NUL>>
                     \o str_int(Len(utf8_encode(obj.v))) \o <<NUL>>
                     \o obj.v \o <<NUL>>)

\* A faulty encoder: the length of a text is its number of characters.
format_payload_char_count(name, obj) ==
  IF falsy(obj) THEN <<>>
  ELSE IF obj.t = "list"
    THEN LET content == <<<<"V">> \o name, str_int(Len(obj.v))>> \o obj.v
         IN  utf8_encode(join(<<NUL>>, content) \o <<NUL>>)
  ELSE utf8_encode(<<"F">> \o name \o <<NUL>>
                     \o str_int(Len(obj.v)) \o <<NUL>>
                     \o obj.v \o <<NUL>>)

\* Tio._format_payload(name, obj): the bytes of one field record.
format_payload(name, obj) ==
  IF falsy(obj) THEN <<>>
  ELSE IF obj.t = "list"
    THEN LET content == <<<<"V">> \o name, str_int(Len(obj.v))>> \o obj.v
         IN  utf8_encode(join(<<NUL>>, content) \o <<NUL>>)
  ELSE utf8_encode(<<"F">> \o name \o <<NUL>>
                     \o str_int(Len(utf8_encode(obj.v))) \o <<NUL>>
                     \o obj.v \o <<NUL>>)

\* A faulty encoder: the header of a list record is inserted into the list
\* itself.
list_after_format_in_place(name, obj) ==
  IF falsy(obj) \/ obj.t # "list" THEN obj
  ELSE PyList(<<<<"V">> \o name, str_int(Len(obj.v))>> \o obj.v)

\* The value of the object obj when _format_payload(name, obj) has
\* returned: the list branch concatenates into a new list, no statement
\* assigns into obj or calls a method that changes it.
list_after_format(name, obj) == obj

\* The keys of the dict `data` of execute.
KeyLang == <<"l", "a", "n", "g">>
KeyCode == <<".", "c", "o", "d", "e", ".", "t", "i", "o">>
KeyInput == <<".", "i", "n", "p", "u", "t", ".", "t", "i", "o">>
KeyCflags == <<"T", "I", "O", "_", "C", "F", "L", "A", "G", "S">>
KeyOptions == <<"T", "I", "O", "_", "O", "P", "T", "I", "O", "N", "S">>
KeyArgs == <<"a", "r", "g", "s">>

\* The dict `data` of execute, as the list of its items in insertion order.
request_data(language, code, inputs, compiler_flags, Cl_options, arguments) ==
  << <<KeyLang, PyList(<<language>>)>>,
     <<KeyCode, code>>,
     <<KeyInput, inputs>>,
     <<KeyCflags, compiler_flags>>,
     <<KeyOptions, Cl_options>>,
     <<KeyArgs, arguments>> >>

\* bytes_ of execute: the records of the items of data, then b'R'.
payload_bytes(data) ==
  concat([i \in 1..Len(data) |-> format_payload(data[i][1], data[i][2])])
    \o <<Ord("R")>>

\* compress(bytes_, 9)[2:-4]: the raw deflate stream of the payload.  The
\* deflate coding itself is not modelled: the stream is the payload it
\* inflates to, tagged as compressed at level 9 with header and trailer cut.
compress_raw(bytes_) == [deflate |-> bytes_, level |-> 9]

(***************************************************************************)
(* Language resolution of execute                                          *)
(***************************************************************************)

\* A faulty resolution: the membership test of line 89 is left out.
resolve_language_no_exact(language, languages) ==
  LET match == SelectSeq(languages, LAMBDA l : str_in(language, l))
  IN  IF match # <<>> THEN match[1] ELSE language

\* The identifier execute sends: language itself when it is in languages,
\* else the first entry of languages that contains it, else language.
resolve_language(language, languages) ==
  IF ~list_in(language, languages)
    THEN LET match == SelectSeq(languages, LAMBDA l : str_in(language, l))
         IN  IF match # <<>> THEN match[1] ELSE language
    ELSE language

(***************************************************************************)
(* The response of the execution endpoint                                  *)
(***************************************************************************)

LitTheLanguage == <<"T", "h", "e", " ", "l", "a", "n", "g", "u", "a", "g", "e">>
LitCouldNot ==
  <<"c", "o", "u", "l", "d", " ", "n", "o", "t", " ", "b", "e", " ",
    "f", "o", "u", "n", "d", " ", "o", "n", " ", "t", "h", "e", " ",
    "s", "e", "r", "v", "e", "r">>

\* text[i..] starts with lit
LitAt(text, i, lit) ==
  /\ i + Len(lit) - 1 <= Len(text)
  /\ SubSeq(text, i, i + Len(lit) - 1) = lit

\* A faulty pattern: the two spaces around the quoted name are required.
re_match_at_spaces(text, i) ==
  /\ LitAt(text, i, LitTheLanguage \o <<" ", "'">>)
  /\ \E n \in 1..Len(text) :
       LET q2 == i + Len(LitTheLanguage) + 2 + n
           dot == q2 + 2 + Len(LitCouldNot)
       IN  /\ q2 <= Len(text)
           /\ \A k \in (q2 - n)..(q2 - 1) : text[k] # LF
           /\ LitAt(text, q2, <<"'", " ">> \o LitCouldNot)
           /\ dot <= Len(text)
           /\ text[dot] # LF

\* The pattern  The language ?'.+' ?could not be found on the server.
\* matches text from position i: an optional space, a quote, one or more
\* characters other than a line feed, a quote, an optional space, and after
\* the last literal any one character other than a line feed.
re_match_at(text, i) ==
  /\ LitAt(text, i, LitTheLanguage)
  /\ \E sp1 \in {0, 1}, sp2 \in {0, 1}, n \in 1..Len(text) :
       LET q1 == i + Len(LitTheLanguage) + sp1
           q2 == q1 + n + 1
           lit == q2 + 1 + sp2
           dot == lit + Len(LitCouldNot)
       IN  /\ sp1 = 1 => LitAt(text, q1 - 1, <<" ">>)
           /\ LitAt(text, q1, <<"'">>)
           /\ q2 <= Len(text)
           /\ \A k \in (q1 + 1)..(q2 - 1) : text[k] # LF
           /\ LitAt(text, q2, <<"'">>)
           /\ sp2 = 1 => LitAt(text, q2 + 1, <<" ">>)
           /\ LitAt(text, lit, LitCouldNot)
           /\ dot <= Len(text)
           /\ text[dot] # LF

\* re.search(pattern, data) is not None
re_search(text) == \E i \in 1..Len(text) : re_match_at(text, i)

LitError == <<"E", "r", "r", "o", "r", " ">>

\* What execute does with the response r of the POST, having sent language:
\* the exception it raises or the TioResponse it returns.
execute_outcome(r, language) ==
  IF r.ok
    THEN LET data == utf8_decode(r.body)
         IN  IF re_search(data)
               THEN [kind |-> "LanguageNotFound",
                     text |-> SubSeq(data, 17, Len(data)),
                     language |-> <<>>]
               ELSE [kind |-> "TioResponse", text |-> data, language |-> language]
    ELSE [kind |-> "ApiError",
          text |-> LitError \o str_int(r.status) \o <<",", " ">> \o r.reason,
          language |-> <<>>]

(***************************************************************************)
(* The client: its fields, its coroutines and the sessions it uses         *)
(***************************************************************************)

VARIABLES
  loop_running,     \* self.loop.is_running() when the constructor ran
  store_languages,  \* self._store_languages
  session_arg,      \* a session was passed to the constructor
  session,          \* self.session: 0 is None, else the number of a session
  open,             \* open[i]: session i exists and is not closed
  languages,        \* self.languages
  tasks,            \* the running _initialize: of the constructor, of __aenter__
  scope,            \* the async with block: "out", "in" or "left"
  calls,            \* the execute calls
  n_enter,          \* __aenter__ calls so far
  n_close,          \* direct close calls so far
  n_init,           \* runs of _initialize started so far
  n_assign,         \* assignments to self.languages by _initialize so far
  close_result,     \* how the last close ended: "none", "ok", "AttributeError"
  closed_once,      \* a close has completed
  after_close,      \* what was done after a close completed
  defaults          \* the default lists of execute, shared by all calls

vars ==
  <<loop_running, store_languages, session_arg, session, open, languages,
    tasks, scope, calls, n_enter, n_close, n_init, n_assign, close_result,
    closed_once, after_close, defaults>>

API_URL == "https://tio.run/cgi-bin/run/api/"
LANGUAGES_URL == "https://tio.run/languages.json"

\* Bounds of the lifecycle specification.
MaxCalls == 1     \* execute calls that may be in progress together
MaxEnter == 1     \* __aenter__ calls
MaxClose == 1     \* direct calls of close (those of __aexit__ come on top)

CallIds == 1..MaxCalls
TaskIds == {"bg", "enter"}

NoOutcome == [kind |-> "none", text |-> <<>>, language |-> <<>>]
Raised(kind) == [kind |-> kind, text |-> <<>>, language |-> <<>>]

\* An execute call that has not started.  Of a started call, args are the
\* objects bound to code, inputs and the three list parameters, lists what
\* the three lists hold once the payload is built, and beside the calls
\* that were waiting for their response when this one started.
IdleCall ==
  [pc |-> "idle", requested |-> <<>>, args |-> <<>>, catalog |-> <<>>,
   language |-> <<>>, reqs |-> <<>>, r |-> <<>>, outcome |-> NoOutcome,
   lists |-> <<>>, beside |-> {}]

\* The lists [] that are the defaults of compiler_flags, Cl_options and
\* arguments: one object each, created when execute is defined.
DefaultLists == <<PyList(<<>>), PyList(<<>>), PyList(<<>>)>>

\* What a caller passes for a list parameter it leaves out.
Omitted == [t |-> "omitted", v |-> <<>>]

\* The state when __init__ has run up to line 41: the fields are set and
\* _initialize is about to be scheduled (loop running) or run to completion.
\* ids names the execute calls the caller may have in progress together.
client_init(ids) ==
  /\ loop_running \in BOOLEAN
  /\ store_languages \in BOOLEAN
  /\ session_arg \in BOOLEAN
  /\ session = IF session_arg THEN 1 ELSE 0
  /\ open = IF session_arg THEN <<TRUE>> ELSE <<>>
  /\ languages = <<>>
  /\ tasks = [t \in TaskIds |->
               [pc |-> IF t = "bg" THEN "scheduled" ELSE "idle",
                sess |-> 0, get |-> "none"]]
  /\ scope = "out"
  /\ calls = [c \in ids |-> IdleCall]
  /\ n_enter = 0
  /\ n_close = 0
  /\ n_init = 0
  /\ n_assign = 0
  /\ close_result = "none"
  /\ closed_once = FALSE
  /\ after_close = {}
  /\ defaults = DefaultLists

\* __init__ has returned: at once when the loop was running (create_task),
\* after _initialize has completed when it was not (run_until_complete).
Init == client_init(CallIds)

constructed == loop_running \/ tasks["bg"].pc = "done"

\* _initialize up to its first suspension: the session is created and, with
\* store_languages, the GET of LANGUAGES_URL is sent on it.
initialize_begin(t) ==
  LET id == Len(open) + 1 IN
  /\ session' = id
  /\ open' = Append(open, TRUE)
  /\ n_init' = n_init + 1
  /\ tasks' = [tasks EXCEPT ![t] =
                 IF store_languages
                   THEN [pc |-> "get", sess |-> id, get |-> "pending"]
                   ELSE [pc |-> "done", sess |-> id, get |-> "skipped"]]
  /\ after_close' =
       IF closed_once
         THEN after_close \cup {"session"}
                \cup (IF store_languages THEN {"GET"} ELSE {})
         ELSE after_close
  /\ scope' = IF t = "enter" /\ ~store_languages THEN "in" ELSE scope

\* The task the constructor created (or the run_until_complete) starts.
initialize_task ==
  /\ tasks["bg"].pc = "scheduled"
  /\ initialize_begin("bg")
  /\ UNCHANGED <<defaults, loop_running, store_languages, session_arg, languages, calls,
                 n_enter, n_close, n_assign, close_result, closed_once>>

\* __aenter__: await self._initialize(), up to its first suspension.
aenter ==
  /\ constructed
  /\ scope # "in"
  /\ tasks["enter"].pc # "get"
  /\ n_enter < MaxEnter
  /\ n_enter' = n_enter + 1
  /\ initialize_begin("enter")
  /\ UNCHANGED <<defaults, loop_running, store_languages, session_arg, languages, calls,
                 n_close, n_assign, close_result, closed_once>>

\* The response r of the GET arrives: with r.ok the keys of its JSON object
\* become self.languages; _initialize returns (and with it __aenter__).
initialize_response(t, r) ==
  /\ tasks[t].pc = "get"
  /\ IF r.ok
       THEN languages' = r.keys /\ n_assign' = n_assign + 1
       ELSE UNCHANGED <<languages, n_assign>>
  /\ tasks' = [tasks EXCEPT ![t].pc = "done",
                            ![t].get = IF r.ok THEN "ok" ELSE "failed"]
  /\ scope' = IF t = "enter" THEN "in" ELSE scope
  /\ UNCHANGED <<defaults, loop_running, store_languages, session_arg, session, open,
                 calls, n_enter, n_close, n_init, close_result, closed_once,
                 after_close>>

\* The session of a GET in flight was closed: the request may also end in a
\* connection error, which _initialize lets through (__aenter__ raises and
\* the block is not entered).
initialize_abort(t) ==
  /\ tasks[t].pc = "get"
  /\ ~open[tasks[t].sess]
  /\ tasks' = [tasks EXCEPT ![t].pc = "failed", ![t].get = "error"]
  /\ scope' = IF t = "enter" THEN "left" ELSE scope
  /\ UNCHANGED <<defaults, loop_running, store_languages, session_arg, session, open,
                 languages, calls, n_enter, n_close, n_init, n_assign,
                 close_result, closed_once, after_close>>

\* The body of close: await self.session.close().  On None the attribute
\* lookup raises; closing a closed session changes nothing.
close_session ==
  IF session = 0
    THEN /\ close_result' = "AttributeError"
         /\ UNCHANGED <<open, closed_once>>
    ELSE /\ open' = [open EXCEPT ![session] = FALSE]
         /\ close_result' = "ok"
         /\ closed_once' = TRUE

\* A direct call of close.
close ==
  /\ constructed
  /\ n_close < MaxClose
  /\ n_close' = n_close + 1
  /\ close_session
  /\ UNCHANGED <<defaults, loop_running, store_languages, session_arg, session,
                 languages, tasks, scope, calls, n_enter, n_init, n_assign,
                 after_close>>

\* __aexit__: the block is left, normally or by an exception.
aexit ==
  /\ scope = "in"
  /\ close_session
  /\ scope' = "left"
  /\ UNCHANGED <<defaults, loop_running, store_languages, session_arg, session,
                 languages, tasks, calls, n_enter, n_close, n_init, n_assign,
                 after_close>>

\* execute up to its suspension at the POST: the language is resolved, the
\* payload built and compressed, and the POST sent on self.session.  With
\* self.session None the attribute lookup raises, and a closed session
\* refuses the request (RuntimeError) before anything is sent.
execute_call(c, code, language, inputs, compiler_flags, Cl_options, arguments) ==
  /\ constructed
  /\ calls[c].pc = "idle"
  /\ LET given == <<compiler_flags, Cl_options, arguments>>
         keys == <<KeyCflags, KeyOptions, KeyArgs>>
         \* a parameter left out is bound to the shared default list
         bound == [i \in 1..3 |->
                    IF given[i] = Omitted THEN defaults[i] ELSE given[i]]
         lang == resolve_language(language, languages)
         bytes_ == payload_bytes(request_data(lang, code, inputs,
                                              bound[1], bound[2], bound[3]))
         call == [IdleCall EXCEPT
                    !.requested = language,
                    !.args = <<code, inputs, bound[1], bound[2], bound[3]>>,
                    !.catalog = languages,
                    !.language = lang,
                    !.lists = [i \in 1..3 |-> list_after_format(keys[i], bound[i])],
                    !.beside = {d \in DOMAIN calls : calls[d].pc = "post"}]
         sent == session # 0 /\ open[session]
     IN  /\ calls' = [calls EXCEPT ![c] =
                        IF session = 0
                          THEN [call EXCEPT !.pc = "done",
                                            !.outcome = Raised("AttributeError")]
                        ELSE IF ~open[session]
                          THEN [call EXCEPT !.pc = "done",
                                            !.outcome = Raised("RuntimeError")]
                        ELSE [call EXCEPT !.pc = "post",
                                          !.reqs = <<[method |-> "POST",
                                                      url |-> API_URL,
                                                      session |-> session,
                                                      data |-> compress_raw(bytes_)]>>]]
         /\ after_close' = IF closed_once /\ sent
                             THEN after_close \cup {"POST"} ELSE after_close
         /\ defaults' = [i \in 1..3 |->
                          IF given[i] = Omitted
                            THEN list_after_format(keys[i], defaults[i])
                            ELSE defaults[i]]
  /\ UNCHANGED <<loop_running, store_languages, session_arg, session, open,
                 languages, tasks, scope, n_enter, n_close, n_init, n_assign,
                 close_result, closed_once>>

\* A faulty execute: a response that is not ok is answered by sending the
\* POST once more.
execute_response_retry(c, r) ==
  /\ calls[c].pc = "post"
  /\ calls' = IF ~r.ok /\ Len(calls[c].reqs) < 2
                THEN [calls EXCEPT ![c].reqs = @ \o @]
                ELSE [calls EXCEPT ![c].pc = "done",
                                   ![c].r = r,
                                   ![c].outcome = execute_outcome(r, calls[c].language)]
  /\ UNCHANGED <<defaults, loop_running, store_languages, session_arg, session, open,
                 languages, tasks, scope, n_enter, n_close, n_init, n_assign,
                 close_result, closed_once, after_close>>

\* A faulty execute: the resolved language is kept on the client, so a call
\* that ends while another is in flight reports the language of the other.
execute_response_shared(c, r) ==
  /\ calls[c].pc = "post"
  /\ LET others == {d \in DOMAIN calls \ {c} : calls[d].pc = "post"}
         lang == IF others = {} THEN calls[c].language
                 ELSE calls[CHOOSE d \in others : TRUE].language
     IN  calls' = [calls EXCEPT ![c].pc = "done",
                                ![c].r = r,
                                ![c].outcome = execute_outcome(r, lang)]
  /\ UNCHANGED <<defaults, loop_running, store_languages, session_arg, session, open,
                 languages, tasks, scope, n_enter, n_close, n_init, n_assign,
                 close_result, closed_once, after_close>>

\* The response r of the POST arrives and execute ends.
execute_response(c, r) ==
  /\ calls[c].pc = "post"
  /\ calls' = [calls EXCEPT ![c].pc = "done",
                            ![c].r = r,
                            ![c].outcome = execute_outcome(r, calls[c].language)]
  /\ UNCHANGED <<defaults, loop_running, store_languages, session_arg, session, open,
                 languages, tasks, scope, n_enter, n_close, n_init, n_assign,
                 close_result, closed_once, after_close>>

\* The session of a POST in flight was closed: the request may also end in
\* a connection error, which execute lets through.
execute_abort(c) ==
  /\ calls[c].pc = "post"
  /\ ~open[calls[c].reqs[1].session]
  /\ calls' = [calls EXCEPT ![c].pc = "done",
                            ![c].outcome = Raised("ClientError")]
  /\ UNCHANGED <<defaults, loop_running, store_languages, session_arg, session, open,
                 languages, tasks, scope, n_enter, n_close, n_init, n_assign,
                 close_result, closed_once, after_close>>

\* The caller has taken the result or the exception of a finished call.
execute_return(c) ==
  /\ calls[c].pc = "done"
  /\ calls' = [calls EXCEPT ![c] = IdleCall]
  /\ UNCHANGED <<defaults, loop_running, store_languages, session_arg, session, open,
                 languages, tasks, scope, n_enter, n_close, n_init, n_assign,
                 close_result, closed_once, after_close>>

(***************************************************************************)
(* The environment: what callers pass and what the servers answer          *)
(***************************************************************************)

TxtPython3 == <<"p", "y", "t", "h", "o", "n", "3">>
TxtPy == <<"p", "y">>
TxtPyth == <<"p", "y", "t", "h">>
TxtPrint == <<"p", "r", "i", "n", "t", "(", "1", ")">>
TxtHello == <<"H", "e", "l", "l", "o">>
TxtXyz == <<"x", "y", "z">>
ReasonOK == <<"O", "K">>
ReasonNotFound == <<"N", "o", "t", " ", "F", "o", "u", "n", "d">>

\* The server's message for an unknown language, with or without the spaces
\* around the quoted name.
not_found_message(name, space1, space2) ==
  LitTheLanguage \o (IF space1 THEN <<" ">> ELSE <<>>) \o <<"'">> \o name
    \o <<"'">> \o (IF space2 THEN <<" ">> ELSE <<>>) \o LitCouldNot \o <<".">>

\* A response of the languages endpoint: ok, and the keys of its JSON object.
GetOk(keys) == [ok |-> TRUE, status |-> 200, reason |-> ReasonOK, keys |-> keys]
GetNotOk == [ok |-> FALSE, status |-> 404, reason |-> ReasonNotFound, keys |-> <<>>]

\* A response of the execution endpoint: ok, status, reason and body bytes.
PostOk(text) ==
  [ok |-> TRUE, status |-> 200, reason |-> ReasonOK, body |-> utf8_encode(text)]
PostNotOk(status, reason, text) ==
  [ok |-> FALSE, status |-> status, reason |-> reason, body |-> utf8_encode(text)]

GetResponses == {GetOk(<<TxtPython3, TxtPy>>), GetNotOk}
PostResponses ==
  {PostOk(TxtHello), PostOk(not_found_message(TxtXyz, TRUE, TRUE)),
   PostNotOk(404, ReasonNotFound, <<>>)}

\* A caller starts execute as call c of Cs, with arguments of the given sets.
execute_any(Cs, Codes, Langs, Inputs, Flags, Options, Args) ==
  \E c \in Cs :
    /\ calls[c].pc = "idle"
    /\ \E code \in Codes, language \in Langs, inputs \in Inputs,
          compiler_flags \in Flags, Cl_options \in Options, arguments \in Args :
         execute_call(c, code, language, inputs, compiler_flags, Cl_options,
                      arguments)

Next ==
  \/ initialize_task
  \/ aenter
  \/ \E t \in TaskIds, r \in GetResponses : initialize_response(t, r)
  \/ \E t \in TaskIds : initialize_abort(t)
  \/ close
  \/ aexit
  \/ execute_any(CallIds, {PyStr(TxtPrint)}, {TxtPyth}, {PyStr(<<>>)},
                 {PyList(<<>>)}, {PyList(<<>>)}, {PyList(<<>>)})
  \/ \E c \in CallIds, r \in PostResponses : execute_response(c, r)
  \/ \E c \in CallIds : execute_abort(c)
  \/ \E c \in CallIds : execute_return(c)

Spec == Init /\ [][Next]_vars

(***************************************************************************)
(* Specifications of one client built outside a running loop (so that      *)
(* _initialize has completed when the constructor returns) with one        *)
(* execute call at a time, over wider sets of inputs                       *)
(***************************************************************************)

ready_init ==
  /\ client_init({1})
  /\ loop_running = FALSE
  /\ session_arg = FALSE

\* All texts over alphabet of at most n characters.
texts_up_to(alphabet, n) == UNION {[1..k -> alphabet] : k \in 0..n}

\* All lists of at most n elements of S.
lists_up_to(S, n) == UNION {[1..k -> S] : k \in 0..n}

\* The keys of a JSON object are distinct.
distinct_keys(l) == \A i, j \in 1..Len(l) : l[i] = l[j] => i = j

\* --- language resolution ---
MaxLen == 2        \* length of an identifier
MaxCatalog == 2    \* number of identifiers the languages endpoint lists

ResolveIdentifiers == texts_up_to({"p", "y"}, MaxLen)
ResolveCatalogs ==
  {l \in lists_up_to(ResolveIdentifiers, MaxCatalog) : distinct_keys(l)}

NextResolve ==
  \/ initialize_task
  \/ \E r \in {GetOk(keys) : keys \in ResolveCatalogs} \cup {GetNotOk} :
       initialize_response("bg", r)
  \/ execute_any({1}, {PyStr(TxtPrint)}, ResolveIdentifiers, {PyStr(<<>>)},
                 {PyList(<<>>)}, {PyList(<<>>)}, {PyList(<<>>)})
  \/ execute_response(1, PostOk(TxtHello))
  \/ execute_return(1)

SpecResolve == ready_init /\ [][NextResolve]_vars

\* --- the response of the execution endpoint ---
TxtRust == <<"r", "u", "s", "t">>
ReasonServerError ==
  <<"I", "n", "t", "e", "r", "n", "a", "l", " ", "S", "e", "r", "v", "e", "r",
    " ", "E", "r", "r", "o", "r">>

\* The server's message with its last character replaced.
message_ending(name, last) ==
  LET m == not_found_message(name, TRUE, TRUE)
  IN  SubSeq(m, 1, Len(m) - 1) \o last

ParseTexts ==
  {not_found_message(name, s1, s2) :
     name \in {TxtXyz, <<"x">>, <<>>, <<"x", "'", "y">>, <<"x", LF>>, <<EAcute>>},
     s1 \in BOOLEAN, s2 \in BOOLEAN}
  \cup {message_ending(TxtXyz, last) : last \in {<<>>, <<"!">>, <<LF>>, <<".", LF>>}}
  \cup {<<"t", "i", "o", ":", " ">> \o not_found_message(TxtXyz, TRUE, TRUE)
          \o <<LF, "b", "y", "e">>}
  \cup {<<>>, TxtHello, <<"a", EAcute, Euro, NUL, LF>>, LitTheLanguage,
        LitTheLanguage \o <<" ">> \o LitCouldNot \o <<".">>}

ParseResponses ==
  {PostOk(text) : text \in ParseTexts}
  \cup {PostNotOk(404, ReasonNotFound, <<>>),
        PostNotOk(500, ReasonServerError, TxtHello),
        PostNotOk(404, ReasonNotFound, not_found_message(TxtXyz, TRUE, TRUE))}

NextParse ==
  \/ initialize_task
  \/ \E r \in GetResponses : initialize_response("bg", r)
  \/ execute_any({1}, {PyStr(TxtPrint)}, {TxtPyth, TxtRust}, {PyStr(<<>>)},
                 {PyList(<<>>)}, {PyList(<<>>)}, {PyList(<<>>)})
  \/ \E r \in ParseResponses : execute_response(1, r)
  \/ execute_return(1)

SpecParse == ready_init /\ [][NextParse]_vars

\* --- the payload ---
MaxList == 2       \* length of a list argument

PayloadCodes ==
  {PyStr(<<>>), PyStr(TxtPrint), PyStr(<<"a", EAcute, Euro>>),
   PyStr(TxtPrint \o <<LF>> \o TxtPrint), PyStr(<<"7", NUL, "F">>)}
PayloadLanguages == {TxtPython3, <<>>}
PayloadInputs == {PyNone, PyStr(<<>>), PyStr(<<"1", LF>>)}
PayloadFlags ==
  {PyNone} \cup {PyList(l) : l \in lists_up_to({<<"-", "O">>}, MaxList)}
PayloadOptions == {PyList(l) : l \in lists_up_to({<<"-", "q">>}, MaxList)}
PayloadArgs ==
  {PyList(l) : l \in lists_up_to({<<>>, <<"a">>, <<"b", NUL>>}, MaxList)}

NextPayload ==
  \/ initialize_task
  \/ \E r \in GetResponses : initialize_response("bg", r)
  \/ execute_any({1}, PayloadCodes, PayloadLanguages, PayloadInputs,
                 PayloadFlags, PayloadOptions, PayloadArgs)
  \/ execute_response(1, PostOk(TxtHello))
  \/ execute_return(1)

SpecPayload == ready_init /\ [][NextPayload]_vars

\* Several execute calls in progress together on a ready client.
MaxConcurrent == 2     \* execute calls that may be in progress together

ConcurrentIds == 1..MaxConcurrent
ConcurrentLanguages == {TxtPyth, TxtXyz}

concurrent_init ==
  /\ client_init(ConcurrentIds)
  /\ loop_running = FALSE
  /\ session_arg = FALSE

NextConcurrent ==
  \/ initialize_task
  \/ \E r \in GetResponses : initialize_response("bg", r)
  \/ execute_any(ConcurrentIds, {PyStr(TxtPrint)}, ConcurrentLanguages,
                 {PyStr(<<>>)}, {Omitted}, {Omitted}, {Omitted})
  \/ \E c \in ConcurrentIds, r \in PostResponses : execute_response(c, r)
  \/ \E c \in ConcurrentIds : execute_return(c)

SpecConcurrent == concurrent_init /\ [][NextConcurrent]_vars

\* Calls with lists of the caller and with the default lists, one after
\* the other or together, on a ready client.
FrameIds == {1, 2}
FrameLists == {Omitted, PyList(<< <<"a">> >>)}

frame_init ==
  /\ client_init(FrameIds)
  /\ loop_running = FALSE
  /\ session_arg = FALSE

NextFrame ==
  \/ initialize_task
  \/ \E r \in GetResponses : initialize_response("bg", r)
  \/ execute_any(FrameIds, {PyStr(TxtPrint)}, {TxtPyth}, {PyStr(<<>>)},
                 FrameLists, {Omitted}, FrameLists)
  \/ \E c \in FrameIds, r \in PostResponses : execute_response(c, r)
  \/ \E c \in FrameIds : execute_return(c)

SpecFrame == frame_init /\ [][NextFrame]_vars

(***************************************************************************)
(* C1: language resolution                                                 *)
(***************************************************************************)

\* needle occurs in haystack: haystack is a prefix, needle, a suffix
C1_Occurs(needle, haystack) ==
  \E a \in 0..Len(haystack) :
    /\ a + Len(needle) <= Len(haystack)
    /\ \A k \in 1..Len(needle) : haystack[a + k] = needle[k]

\* What the three rules of the claim give for a request and a catalog.
C1_Expected(requested, catalog) ==
  LET hits == {i \in 1..Len(catalog) : C1_Occurs(requested, catalog[i])}
  IN  IF \E i \in 1..Len(catalog) : catalog[i] = requested THEN requested
      ELSE IF hits # {} THEN catalog[CHOOSE i \in hits : \A j \in hits : i <= j]
      ELSE requested

\* The language record that opens a payload sent for identifier id.
C1_LangRecord(id) ==
  utf8_encode(<<"V">> \o KeyLang \o <<NUL, "1", NUL>> \o id \o <<NUL>>)

\* C1: for every started execute call, the identifier that is sent (the
\* language record of the posted payload) and the identifier stored in the
\* returned result are the requested identifier if it is a member of the
\* catalog read by the call, else the first catalog entry that contains it,
\* else the requested identifier unchanged; no call is rejected by the client.
C1_LanguageResolution ==
  \A c \in DOMAIN calls :
    calls[c].pc # "idle" =>
      LET want == C1_Expected(calls[c].requested, calls[c].catalog)
          rec == C1_LangRecord(want)
      IN  /\ calls[c].language = want
          /\ calls[c].reqs # <<>>
          /\ SubSeq(calls[c].reqs[1].data.deflate, 1, Len(rec)) = rec
          /\ calls[c].outcome.kind = "TioResponse" =>
               calls[c].outcome.language = want

\* A call has returned a result for an identifier that is a member of the
\* catalog while an earlier entry of the catalog contains it.
C1_Witness ==
  \E c \in DOMAIN calls :
    /\ calls[c].pc = "done"
    /\ calls[c].outcome.kind = "TioResponse"
    /\ Len(calls[c].catalog) = 2
    /\ calls[c].catalog[2] = calls[c].requested
    /\ calls[c].catalog[1] # calls[c].requested
    /\ C1_Occurs(calls[c].requested, calls[c].catalog[1])
    /\ calls[c].outcome.language = calls[c].requested

(***************************************************************************)
(* C2: classification of a response with a success status                  *)
(***************************************************************************)

\* text is the server's message for some non-empty name on one line, with
\* or without each of the spaces around the quoted name.
C2_IsMessage(text) ==
  \E s1 \in {<<>>, <<" ">>}, s2 \in {<<>>, <<" ">>} :
    LET head == LitTheLanguage \o s1 \o <<"'">>
        tail == <<"'">> \o s2 \o LitCouldNot \o <<".">>
        n == Len(text) - Len(head) - Len(tail)
    IN  /\ n >= 1
        /\ SubSeq(text, 1, Len(head)) = head
        /\ SubSeq(text, Len(text) - Len(tail) + 1, Len(text)) = tail
        /\ \A k \in (Len(head) + 1)..(Len(head) + n) : text[k] # LF

\* C2: when the POST is answered with a success status and body text, a
\* finished execute has raised LanguageNotFound if text is the server's
\* message for a language that could not be found, and if text does not
\* match the pattern it has returned a result holding exactly text and the
\* resolved identifier; it ends in one of the two.
C2_ErrorClassification ==
  \A c \in DOMAIN calls :
    \A text \in ParseTexts :
      (calls[c].pc = "done" /\ calls[c].r = PostOk(text)) =>
        /\ calls[c].outcome.kind \in {"LanguageNotFound", "TioResponse"}
        /\ C2_IsMessage(text) => calls[c].outcome.kind = "LanguageNotFound"
        /\ ~re_search(text) =>
             calls[c].outcome =
               [kind |-> "TioResponse", text |-> text,
                language |-> C1_Expected(calls[c].requested, calls[c].catalog)]

\* A call was refused for the message without the optional spaces.
C2_Witness ==
  \E c \in DOMAIN calls :
    /\ calls[c].pc = "done"
    /\ calls[c].r = PostOk(not_found_message(TxtXyz, FALSE, FALSE))
    /\ calls[c].outcome.kind = "LanguageNotFound"

(***************************************************************************)
(* C3: ApiError on a non-success status, one POST per call, no retry       *)
(***************************************************************************)

\* The decimal text of the status codes the model's servers answer with.
C3_StatusText(status) ==
  CASE status = 200 -> <<"2", "0", "0">>
    [] status = 404 -> <<"4", "0", "4">>
    [] status = 500 -> <<"5", "0", "0">>

\* C3: an execute call never has more than one request, its POST to the
\* execution endpoint; a call that is waiting for the response or has ended
\* in a result, an ApiError or a LanguageNotFound has sent exactly that one;
\* and a response with a non-success status ends the call in an ApiError
\* whose message carries the status code and the reason phrase.
C3_ApiErrorNoRetry ==
  \A c \in DOMAIN calls :
    /\ Len(calls[c].reqs) <= 1
    /\ \A i \in 1..Len(calls[c].reqs) :
         calls[c].reqs[i].method = "POST" /\ calls[c].reqs[i].url = API_URL
    /\ (\/ calls[c].pc = "post"
        \/ calls[c].outcome.kind \in {"TioResponse", "ApiError", "LanguageNotFound"})
         => Len(calls[c].reqs) = 1
    /\ (calls[c].pc = "done" /\ calls[c].r # <<>> /\ ~calls[c].r.ok) =>
         /\ calls[c].outcome.kind = "ApiError"
         /\ C1_Occurs(C3_StatusText(calls[c].r.status), calls[c].outcome.text)
         /\ C1_Occurs(calls[c].r.reason, calls[c].outcome.text)

\* A call has ended in an ApiError for a 500 response, after one POST.
C3_Witness ==
  \E c \in DOMAIN calls :
    /\ calls[c].pc = "done"
    /\ calls[c].r # <<>>
    /\ calls[c].r.status = 500
    /\ calls[c].outcome.kind = "ApiError"
    /\ Len(calls[c].reqs) = 1

(***************************************************************************)
(* C4: layout of the payload                                               *)
(***************************************************************************)

\* The six fields of a call in the order of the claim: the identifier that
\* is sent, then the five other arguments as passed.
C4_Fields(call) ==
  << <<KeyLang, PyList(<<call.language>>)>>,
     <<KeyCode, call.args[1]>>,
     <<KeyInput, call.args[2]>>,
     <<KeyCflags, call.args[3]>>,
     <<KeyOptions, call.args[4]>>,
     <<KeyArgs, call.args[5]>> >>

\* An absent value, an empty text or an empty list.
C4_Empty(value) == value = PyNone \/ value = PyStr(<<>>) \/ value = PyList(<<>>)

RECURSIVE C4_Records(_)
\* The records of the fields that are not empty, one after the other.
C4_Records(fields) ==
  IF fields = <<>> THEN <<>>
  ELSE (IF C4_Empty(fields[1][2]) THEN <<>>
        ELSE format_payload(fields[1][1], fields[1][2]))
         \o C4_Records(Tail(fields))

\* b'Vlang\x001\x00python3\x00F.code.tio\x008\x00print(1)\x00R'
C4_TwoRecords ==
  <<86, 108, 97, 110, 103, 0, 49, 0, 112, 121, 116, 104, 111, 110, 51, 0,
    70, 46, 99, 111, 100, 101, 46, 116, 105, 111, 0, 56, 0, 112, 114, 105,
    110, 116, 40, 49, 41, 0, 82>>

\* code print(1), language python3, nothing else
C4_Example(call) ==
  /\ call.language = TxtPython3
  /\ call.args[1] = PyStr(TxtPrint)
  /\ \A i \in 2..5 : C4_Empty(call.args[i])

\* C4: the payload a call posts is the records of its non-empty fields in
\* the order language, code, input, compiler flags, runtime options,
\* arguments (an empty text, an empty list and None give no byte) followed
\* by the single byte R and nothing else; for code print(1) and language
\* python3 alone it is the language record, the code record and R.
C4_PayloadLayout ==
  \A c \in DOMAIN calls :
    calls[c].reqs # <<>> =>
      LET bytes_ == calls[c].reqs[1].data.deflate
      IN  /\ bytes_ = C4_Records(C4_Fields(calls[c])) \o <<Ord("R")>>
          /\ C4_Example(calls[c]) => bytes_ = C4_TwoRecords

\* The call of the example has posted its payload, with an empty text as
\* input and empty lists as flags, options and arguments.
C4_Witness ==
  \E c \in DOMAIN calls :
    /\ calls[c].reqs # <<>>
    /\ C4_Example(calls[c])
    /\ calls[c].args[2] = PyStr(<<>>)
    /\ calls[c].args[3] = PyList(<<>>)
    /\ calls[c].args[5] = PyList(<<>>)

(***************************************************************************)
(* C5 .. C10: the lifecycle of the client                                  *)
(***************************************************************************)

\* The sessions the client has created (a session passed in is number 1).
created_sessions == {i \in 1..Len(open) : i > 1 \/ ~session_arg}

\* C5: _initialize is run at most once for a client and the client creates
\* at most one session, whatever operations are called on it.
C5_OneTimeInitialization ==
  /\ n_init <= 1
  /\ Cardinality(created_sessions) <= 1

\* C6: once the async with block has been left, every session the client
\* has created is closed.
C6_ReleasedOnExit ==
  scope = "left" => \A i \in created_sessions : ~open[i]

\* A step that is a call of close: a direct one, or the one of __aexit__.
close_step ==
  \/ n_close' = n_close + 1
  \/ scope = "in" /\ scope' = "left"

\* C7: every call of close after construction completes without error and
\* leaves the client with its session closed, and a close of a client whose
\* session is closed already changes nothing.
C7_CloseIdempotent ==
  [][close_step =>
       /\ close_result' = "ok"
       /\ session' # 0
       /\ ~open'[session']
       /\ (session # 0 /\ ~open[session]) =>
            UNCHANGED <<session, open, languages, tasks, calls>>]_vars

\* C8: once a close has completed the session of the client stays closed,
\* no session is created and no request is sent.
C8_ClosedIsTerminal ==
  closed_once => (after_close = {} /\ session # 0 /\ ~open[session])

\* C9: self.languages is assigned at most once, and no step changes it once
\* the _initialize of the constructor has completed.
C9_CatalogWriteOnce ==
  [][/\ n_assign' <= 1
     /\ tasks["bg"].pc = "done" => languages' = languages]_vars

\* C10: when a run of _initialize whose GET was answered with a failure
\* status, or was skipped, completes, it raises nothing, the client has a
\* session and the catalog is empty; and a call that reads an empty catalog
\* sends the requested identifier unchanged.
C10_FetchFailureSwallowed ==
  [][/\ \A t \in TaskIds :
          (tasks[t].pc # "done" /\ tasks'[t].pc = "done"
             /\ tasks'[t].get \in {"failed", "skipped"})
            => (session' # 0 /\ languages' = <<>>)
     /\ \A c \in DOMAIN calls :
          (calls'[c].pc # "idle" /\ calls'[c].catalog = <<>>)
            => calls'[c].language = calls'[c].requested]_vars

(***************************************************************************)
(* C11: the message of LanguageNotFound                                    *)
(***************************************************************************)

\* The rejected names of the server messages among ParseTexts.
C11_Names == {TxtXyz, <<"x">>, <<"x", "'", "y">>, <<EAcute>>}

\* C11: when execute has raised LanguageNotFound for the server's message
\* about a non-empty name, with or without the spaces around the quoted
\* name, the message of the exception contains the whole name.
C11_MessageHasName ==
  \A c \in DOMAIN calls :
    \A name \in C11_Names, s1 \in BOOLEAN, s2 \in BOOLEAN :
      (/\ calls[c].pc = "done"
       /\ calls[c].r = PostOk(not_found_message(name, s1, s2))
       /\ calls[c].outcome.kind = "LanguageNotFound")
        => C1_Occurs(name, calls[c].outcome.text)

(***************************************************************************)
(* C12: the record of a text field can be decoded                          *)
(***************************************************************************)

\* The least index from i on at which the bytes b hold 0, or 0.
C12_Zero(b, i) ==
  LET zs == {j \in i..Len(b) : b[j] = 0}
  IN  IF zs = {} THEN 0 ELSE CHOOSE j \in zs : \A k \in zs : j <= k

RECURSIVE C12_Int(_)
\* The number written by decimal digits given as bytes.
C12_Int(digits) ==
  IF digits = <<>> THEN 0
  ELSE 10 * C12_Int(SubSeq(digits, 1, Len(digits) - 1))
         + (digits[Len(digits)] - 48)

C12_Failed == [ok |-> FALSE, name |-> <<>>, len |-> 0, text |-> <<>>,
               rest |-> <<>>]

\* A reader of the wire format: the byte F, the name up to a NUL, the
\* length in decimal up to a NUL, that many bytes of text, a NUL.
C12_Decode(b) ==
  IF b = <<>> \/ b[1] # 70 THEN C12_Failed
  ELSE
    LET z1 == C12_Zero(b, 2)
        z2 == IF z1 = 0 THEN 0 ELSE C12_Zero(b, z1 + 1)
    IN  IF z2 = 0 \/ z2 = z1 + 1 THEN C12_Failed
        ELSE IF \E j \in (z1 + 1)..(z2 - 1) : b[j] \notin 48..57
          THEN C12_Failed
        ELSE
          LET n == C12_Int(SubSeq(b, z1 + 1, z2 - 1))
          IN  IF z2 + n + 1 > Len(b) THEN C12_Failed
              ELSE IF b[z2 + n + 1] # 0 THEN C12_Failed
              ELSE [ok |-> TRUE,
                    name |-> utf8_decode(SubSeq(b, 2, z1 - 1)),
                    len |-> n,
                    text |-> utf8_decode(SubSeq(b, z2 + 1, z2 + n)),
                    rest |-> SubSeq(b, z2 + n + 2, Len(b))]

\* The bytes b begin with the record of the non-empty text s under name.
C12_Reads(b, name, s) ==
  LET d == C12_Decode(b)
  IN  /\ d.ok
      /\ d.name = name
      /\ d.len = Len(utf8_encode(s))
      /\ d.text = s

\* The posted payload of a call after its language record.
C12_AfterLang(call) ==
  LET bytes_ == call.reqs[1].data.deflate
  IN  SubSeq(bytes_, Len(C1_LangRecord(call.language)) + 1, Len(bytes_))

C12_IsText(value) == value.t = "str" /\ value.v # <<>>

\* C12: the record written for a non-empty text s under a field name
\* decodes to that name, to a declared length equal to the number of bytes
\* of the UTF-8 encoding of s, and to s itself; stated for the code and the
\* input of every posted payload.
C12_ScalarRoundTrip ==
  \A c \in DOMAIN calls :
    calls[c].reqs # <<>> =>
      LET code == calls[c].args[1]
          inputs == calls[c].args[2]
          b1 == C12_AfterLang(calls[c])
          b2 == IF C12_IsText(code) THEN C12_Decode(b1).rest ELSE b1
      IN  /\ C12_IsText(code) => C12_Reads(b1, KeyCode, code.v)
          /\ C12_IsText(inputs) => C12_Reads(b2, KeyInput, inputs.v)

\* A payload was posted whose code has fewer characters than bytes and
\* whose input is a text too; both records were read back.
C12_Witness ==
  \E c \in DOMAIN calls :
    /\ calls[c].reqs # <<>>
    /\ calls[c].args[1] = PyStr(<<"a", EAcute, Euro>>)
    /\ calls[c].args[2] = PyStr(<<"1", LF>>)
    /\ C12_Decode(C12_AfterLang(calls[c])).len = 6
    /\ C12_Decode(C12_Decode(C12_AfterLang(calls[c])).rest).text = <<"1", LF>>

(***************************************************************************)
(* C13: the record of a list field                                         *)
(***************************************************************************)

\* V, the name, NUL, the count in decimal, NUL.
C13_Header(name, n) ==
  utf8_encode(<<"V">> \o name \o <<NUL>> \o str_int(n) \o <<NUL>>)

RECURSIVE C13_Elements(_)
\* The elements in order, each followed by a NUL.
C13_Elements(l) ==
  IF l = <<>> THEN <<>>
  ELSE utf8_encode(l[1] \o <<NUL>>) \o C13_Elements(Tail(l))

\* The number of NUL-terminated pieces a reader finds in the bytes b.
C13_Pieces(b) == Cardinality({j \in 1..Len(b) : b[j] = 0})

\* C13: for a list of n >= 1 texts given as arguments, empty texts and
\* texts holding a NUL included, the record that ends the posted payload is
\* the header with the count n followed by the elements, each followed by a
\* NUL, and exactly n NUL-delimited elements follow the count.
C13_SequenceCount ==
  \A c \in DOMAIN calls :
    (calls[c].reqs # <<>> /\ calls[c].args[5].t = "list"
       /\ calls[c].args[5].v # <<>>) =>
      LET l == calls[c].args[5].v
          bytes_ == calls[c].reqs[1].data.deflate
          head == C13_Header(KeyArgs, Len(l))
          rec == head \o C13_Elements(l)
          from == Len(bytes_) - Len(rec)
      IN  /\ from >= 1
          /\ SubSeq(bytes_, from, Len(bytes_) - 1) = rec
          /\ C13_Pieces(SubSeq(bytes_, from + Len(head), Len(bytes_) - 1))
               = Len(l)

(***************************************************************************)
(* C14: concurrent execute calls are independent                           *)
(***************************************************************************)

\* The request a call sends when it runs alone on a client with the given
\* catalog.
C14_RequestAlone(requested, args, catalog) ==
  [method |-> "POST", url |-> API_URL, session |-> 1,
   data |-> compress_raw(payload_bytes(request_data(
              resolve_language(requested, catalog),
              args[1], args[2], args[3], args[4], args[5])))]

\* C14: whatever other execute calls are in progress on the ready client
\* and in whatever order their responses arrive, a call has read the
\* client's catalog, has sent the one request it sends when running alone
\* and, once its response is there, has the outcome that response gives a
\* call running alone: both are functions of the call's own arguments, the
\* catalog and the call's own response.
C14_Independent ==
  \A c \in DOMAIN calls :
    calls[c].pc # "idle" =>
      /\ calls[c].catalog = languages
      /\ calls[c].reqs
           = <<C14_RequestAlone(calls[c].requested, calls[c].args, languages)>>
      /\ calls[c].pc = "done" =>
           calls[c].outcome
             = execute_outcome(calls[c].r,
                               resolve_language(calls[c].requested, languages))

\* Two calls with different languages overlapped (the second
\* was started while the first waited for its response) and ended
\* differently: one in a result, the other in LanguageNotFound.
C14_Witness ==
  \E c, d \in DOMAIN calls :
    /\ c \in calls[d].beside
    /\ calls[c].pc = "done" /\ calls[d].pc = "done"
    /\ calls[c].requested = TxtPyth /\ calls[d].requested = TxtXyz
    /\ calls[c].outcome.kind = "TioResponse"
    /\ calls[c].outcome.language = TxtPython3
    /\ calls[d].outcome.kind = "LanguageNotFound"

(***************************************************************************)
(* C15: no use before the client is ready                                  *)
(***************************************************************************)

\* C15: on a client constructed without a session, an execute call that
\* was started after the constructor returned was started when the
\* constructor's initialization had ended, and neither it nor a close has
\* met an absent session (the AttributeError of the lookup on None).
C15_NoUseBeforeReady ==
  ~session_arg =>
    /\ \A c \in DOMAIN calls :
         calls[c].pc # "idle" =>
           /\ tasks["bg"].pc \in {"done", "failed"}
           /\ calls[c].outcome.kind # "AttributeError"
    /\ close_result # "AttributeError"

(***************************************************************************)
(* C17: a session passed to the constructor                                *)
(***************************************************************************)

\* C17: when the caller passed a session (session 1), self.session stays
\* that session, the client has created no other, the GET of every run of
\* _initialize and every POST were sent on it, and a completed close has
\* closed it.
C17_SuppliedSessionUsed ==
  session_arg =>
    /\ session = 1
    /\ Len(open) = 1
    /\ \A t \in TaskIds : tasks[t].sess \in {0, 1}
    /\ \A c \in DOMAIN calls :
         \A i \in 1..Len(calls[c].reqs) : calls[c].reqs[i].session = 1
    /\ closed_once => ~open[1]

(***************************************************************************)
(* C16: the frame of execute                                               *)
(***************************************************************************)

\* C16: a step of an execute call (its start up to the POST, or its end in
\* a result, an ApiError or a LanguageNotFound) leaves the catalog, the
\* session and its state, the initialization, the block and the close
\* state of the client as they were; its requests go to the execution
\* endpoint; the lists it was given, those of the caller and the shared
\* default lists, hold afterwards what they held when they were passed.
C16_Frame ==
  [][\A c \in DOMAIN calls :
       (calls'[c] # calls[c] /\ calls'[c].pc # "idle") =>
         /\ UNCHANGED <<languages, session, open, tasks, scope, closed_once,
                        close_result, store_languages, loop_running, defaults>>
         /\ defaults' = DefaultLists
         /\ \A i \in 1..Len(calls'[c].reqs) : calls'[c].reqs[i].url = API_URL
         /\ calls'[c].lists
              = <<calls'[c].args[3], calls'[c].args[4], calls'[c].args[5]>>
         /\ calls[c].pc = "post" =>
              /\ calls'[c].args = calls[c].args
              /\ calls'[c].lists = calls[c].lists]_vars

\* A call given lists of the caller has ended in an ApiError, and a call
\* started after that end, with the default lists, has sent its POST.
C16_Witness ==
  \E c, d \in DOMAIN calls :
    /\ calls[c].pc = "done"
    /\ calls[c].outcome.kind = "ApiError"
    /\ calls[c].args[3] = PyList(<< <<"a">> >>)
    /\ calls[c].args[5] = PyList(<< <<"a">> >>)
    /\ calls[c].lists[3] = PyList(<< <<"a">> >>)
    /\ calls[d].pc = "post"
    /\ c \notin calls[d].beside /\ d \notin calls[c].beside
    /\ calls[d].args[5] = PyList(<<>>)
    /\ defaults = DefaultLists

=============================================================================
